---- MODULE Spec2Model ----
(***************************************************************************)
(* vimeet: the per-connection websocket session actor (src/src/main.rs)    *)
(* and the WebSocketServer coordinator it talks to.                        *)
(*                                                                         *)
(* The session actor (WsWebSocketSession) is translated from main.rs.      *)
(* The coordinator (mod server) and the inbound message shapes (mod        *)
(* messages) are declared in main.rs but their files are not part of the   *)
(* sources; they are modelled from the written specification and marked    *)
(* as such below.                                                          *)
(***************************************************************************)
EXTENDS Integers, Sequences, FiniteSets, TLC

\* ------------------------------------------------------------ constants

\* main.rs:20  const HEARTBEAT_INTERVAL: Duration = Duration::from_secs(5)
HEARTBEAT_INTERVAL == 5
\* main.rs:22  const CLIENT_TIMEOUT: Duration = Duration::from_secs(10)
CLIENT_TIMEOUT == 10

\* Bounds of the model.
MaxSessions == 2
MaxMailbox == 2
MaxPending == 1
MaxQueued == 2
MaxOptions == 2

\* The values the environment draws connection paths and payloads from.
RoomSeq == <<"r1", "r2">>
NameSeq == <<"alice", "bob">>
Rooms == {RoomSeq[i] : i \in DOMAIN RoomSeq}
Names == {NameSeq[i] : i \in DOMAIN NameSeq}
Titles == {"lunch"}
Options == {"pizza", "tacos"}

Ids == 1..MaxSessions

\* A JSON field that is not there.
Absent == "<absent>"
\* A "type" field that is there but is not a JSON string.
NonString == "<nonstring>"

\* The longest silence the model tells apart: every value above
\* CLIENT_TIMEOUT takes the same branch of hb's comparison.
IdleCap == CLIENT_TIMEOUT + 1

VARIABLES
    counter,    \* get_id's static COUNTER
    sess,       \* the session actors, by id
    mailbox,    \* the coordinator's mailbox (FIFO)
    srvUp,      \* whether the coordinator actor is alive
    registry,   \* coordinator: the session registry
    members,    \* coordinator: room -> member ids
    polls,      \* coordinator: room -> title -> poll
    wire,       \* the frame the last step wrote to a client socket
    bcast,      \* the event the last step broadcast, with its recipients
    discSent,   \* per session: how many Disconnect it has sent so far
    handled     \* per session: the last of its Join and Disconnect handled

vars == <<counter, sess, mailbox, srvUp, registry, members, polls, wire, bcast,
          discSent, handled>>

sessVars == <<counter, sess, discSent>>
coordVars == <<registry, members, polls, handled>>

\* ------------------------------------------------------------ sessions

\* A connection that has not been opened yet.
NoSession == [state |-> "none", room |-> "r1", name |-> "alice", idle |-> 0, toTick |-> 0]

NoFrame == [to |-> 0, kind |-> "none"]
NoBroadcast == [room |-> Absent, kind |-> "none", title |-> Absent,
                options |-> <<>>, tally |-> <<>>, to |-> {}]
NoPoll == [exists |-> FALSE, owner_id |-> 0, owner_name |-> Absent,
           options |-> <<>>, votes |-> [i \in Ids |-> Absent], closed |-> FALSE]

\* Addr::do_send: the message is queued whatever the mailbox holds; it is
\* dropped silently when the receiving actor is gone.
DoSend(box, m) == IF srvUp THEN Append(box, m) ELSE box

\* JoinMsg with the room name left at the first room.
JoinMsgFirstRoom(id, s) == [type |-> "Join", id |-> id, room |-> RoomSeq[1], name |-> s.name]

\* server::Join as started() builds it.
JoinMsg(id, s) == [type |-> "Join", id |-> id, room |-> s.room, name |-> s.name]

\* DisconnectMsg with the first id for self.id.
DisconnectMsgFirstId(id) == [type |-> "Disconnect", id |-> 1]

\* server::Disconnect { id }
DisconnectMsg(id) == [type |-> "Disconnect", id |-> id]

\* Rooms and names are opaque keys, so the paths are drawn up to renaming:
\* the k-th connection uses one of the first k rooms and of the first k names.
FirstOf(seq, k) == {seq[i] : i \in {j \in DOMAIN seq : j <= k}}
Paths == {<<r, n>> : r \in FirstOf(RoomSeq, counter), n \in FirstOf(NameSeq, counter)}

\* get_id reading a stale counter: the value the call before it got.
get_id_stale == IF counter > 1 THEN counter - 1 ELSE counter

\* get_id: COUNTER.fetch_add(1)
get_id == counter

\* web_socket_route and Actor::started: a fresh id, hb = now, the room and
\* name of the path; the heartbeat interval is registered and the Join is
\* sent; the context then waits for the reply.
Connect(room, name) ==
    /\ counter <= MaxSessions
    /\ Len(mailbox) < MaxMailbox
    /\ LET id == get_id
           s == [state |-> "starting", room |-> room, name |-> name,
                 idle |-> 0, toTick |-> HEARTBEAT_INTERVAL]
       IN /\ counter' = counter + 1
          /\ sess' = [sess EXCEPT ![id] = s]
          /\ mailbox' = DoSend(mailbox, JoinMsg(id, s))
    /\ wire' = NoFrame
    /\ bcast' = NoBroadcast
    /\ UNCHANGED <<srvUp, coordVars, discSent>>

\* started(), the reply to the Join: Ok(_) => ()
JoinOk(id) ==
    /\ sess[id].state = "acked"
    /\ sess' = [sess EXCEPT ![id].state = "active"]
    /\ wire' = NoFrame
    /\ bcast' = NoBroadcast
    /\ UNCHANGED <<counter, mailbox, srvUp, coordVars, discSent>>

\* JoinErr with the failed reply taken as Ok(_) => ().
JoinErrIgnored(id) ==
    /\ sess[id].state = "starting"
    /\ ~srvUp
    /\ sess' = [sess EXCEPT ![id].state = "active"]
    /\ wire' = NoFrame
    /\ bcast' = NoBroadcast
    /\ UNCHANGED <<counter, mailbox, srvUp, coordVars, discSent>>

\* started(), the reply to the Join: _ => ctx.stop()
\* The request fails when the coordinator's mailbox is closed.
JoinErr(id) ==
    /\ sess[id].state = "starting"
    /\ ~srvUp
    /\ sess' = [sess EXCEPT ![id].state = "stopping"]
    /\ wire' = NoFrame
    /\ bcast' = NoBroadcast
    /\ UNCHANGED <<counter, mailbox, srvUp, coordVars, discSent>>

\* A stopped actor is dropped: its timers and its hb field are gone.
Dropped(s) == [s EXCEPT !.state = "stopped", !.idle = 0, !.toTick = 0]

\* Actor::stopping: do_send(Disconnect { id }), Running::Stop
Stopping(id) ==
    /\ sess[id].state = "stopping"
    /\ Len(mailbox) < MaxMailbox
    /\ mailbox' = DoSend(mailbox, DisconnectMsg(id))
    /\ discSent' = [discSent EXCEPT ![id] = @ + 1]
    /\ sess' = [sess EXCEPT ![id] = Dropped(@)]
    /\ wire' = NoFrame
    /\ bcast' = NoBroadcast
    /\ UNCHANGED <<counter, srvUp, coordVars>>

\* TimedOut with >= for >.
TimedOutGe(s) == s.idle >= CLIENT_TIMEOUT

\* hb's comparison: Instant::now().duration_since(act.hb) > CLIENT_TIMEOUT
TimedOut(s) == s.idle > CLIENT_TIMEOUT

\* The closure hb registers with run_interval, at one tick.
Hb(id) ==
    /\ sess[id].state = "active"
    /\ sess[id].toTick = 0
    /\ IF TimedOut(sess[id])
       THEN /\ Len(mailbox) < MaxMailbox
            /\ mailbox' = DoSend(mailbox, DisconnectMsg(id))
            /\ discSent' = [discSent EXCEPT ![id] = @ + 1]
            /\ sess' = [sess EXCEPT ![id].state = "stopping",
                                    ![id].toTick = HEARTBEAT_INTERVAL]
            /\ wire' = NoFrame
       ELSE /\ wire' = [to |-> id, kind |-> "ping"]
            /\ sess' = [sess EXCEPT ![id].toTick = HEARTBEAT_INTERVAL]
            /\ UNCHANGED <<mailbox, discSent>>
    /\ bcast' = NoBroadcast
    /\ UNCHANGED <<counter, srvUp, coordVars>>

\* One time unit passes. A due tick of a running context fires first; a
\* context that waits for its Join reply handles nothing, so its tick
\* stays due.
Running(s) == s.state \in {"starting", "acked", "active"}

Min(a, b) == IF a < b THEN a ELSE b

Tick ==
    /\ \A id \in Ids : sess[id].state = "active" => sess[id].toTick > 0
    /\ \E id \in Ids : Running(sess[id])
    /\ sess' = [id \in Ids |->
                 IF Running(sess[id])
                 THEN [sess[id] EXCEPT !.idle = Min(@ + 1, IdleCap),
                                       !.toTick = IF @ > 0 THEN @ - 1 ELSE 0]
                 ELSE sess[id]]
    /\ wire' = NoFrame
    /\ bcast' = NoBroadcast
    /\ UNCHANGED <<counter, mailbox, srvUp, coordVars, discSent>>

\* ------------------------------------------------------------ frames

\* ws::Message::Ping: self.hb = Instant::now(); ctx.pong(&msg)
Ping(id) ==
    /\ sess[id].state = "active"
    /\ sess' = [sess EXCEPT ![id].idle = 0]
    /\ wire' = [to |-> id, kind |-> "pong"]
    /\ bcast' = NoBroadcast
    /\ UNCHANGED <<counter, mailbox, srvUp, coordVars, discSent>>

\* ws::Message::Pong: self.hb = Instant::now()
Pong(id) ==
    /\ sess[id].state = "active"
    /\ sess' = [sess EXCEPT ![id].idle = 0]
    /\ wire' = NoFrame
    /\ bcast' = NoBroadcast
    /\ UNCHANGED <<counter, mailbox, srvUp, coordVars, discSent>>

\* Err(_), ws::Message::Close and ws::Message::Continuation: ctx.stop()
StopFrames == {"error", "close", "continuation"}

StopFrame(id, kind) ==
    /\ kind \in StopFrames
    /\ sess[id].state = "active"
    /\ sess' = [sess EXCEPT ![id].state = "stopping"]
    /\ wire' = NoFrame
    /\ bcast' = NoBroadcast
    /\ UNCHANGED <<counter, mailbox, srvUp, coordVars, discSent>>

\* IgnoredFrame with self.hb = Instant::now() as for a pong.
IgnoredFrameRefreshes(id, kind) ==
    /\ kind \in {"binary", "nop"}
    /\ sess[id].state = "active"
    /\ sess' = [sess EXCEPT ![id].idle = 0]
    /\ wire' = NoFrame
    /\ bcast' = NoBroadcast
    /\ UNCHANGED <<counter, discSent, mailbox, srvUp, coordVars>>

\* ws::Message::Binary (logged) and ws::Message::Nop
IgnoredFrames == {"binary", "nop"}

IgnoredFrame(id, kind) ==
    /\ kind \in IgnoredFrames
    /\ sess[id].state = "active"
    /\ wire' = NoFrame
    /\ bcast' = NoBroadcast
    /\ UNCHANGED <<sessVars, mailbox, srvUp, coordVars>>

\* ------------------------------------------------------------ text frames

\* The discriminants messages::inbound::Types names, by their wire string.
PollTypes == {"poll", "polloption", "vote", "closepoll"}
NumericTypes == {"elevate", "recede"}
ArbitraryTypes == {"instant", "raise", "lower"}
TypeNames == PollTypes \cup NumericTypes \cup ArbitraryTypes

\* A text payload: whether it is a JSON object at all, its "type" field, the
\* kind of its "object" field and the two string fields a string-valued
\* object may carry.
ObjectKinds == {"absent", "strings", "number", "other"}

TypeFields == TypeNames \cup {"bogus", Absent, NonString}

\* The payloads a client can write: what is not JSON has no field, and only
\* a string-valued object has string fields.
Texts ==
    { [json |-> FALSE, type |-> Absent, okind |-> "absent", pt |-> Absent, po |-> Absent] }
    \cup { [json |-> TRUE, type |-> ty, okind |-> k, pt |-> Absent, po |-> Absent] :
             ty \in TypeFields, k \in ObjectKinds \ {"strings"} }
    \cup { [json |-> TRUE, type |-> ty, okind |-> "strings", pt |-> pt, po |-> po] :
             ty \in TypeFields, pt \in Titles \cup {Absent}, po \in Options \cup {Absent} }

\* serde_json::from_str::<HashMapObject>: a string "type" and an "object"
\* that maps strings to strings.
ParsesHashMapObject(t) == t.json /\ t.type \notin {Absent, NonString} /\ t.okind = "strings"

\* serde_json::from_str::<UsizeObject>: a string "type" and a numeric "object".
ParsesUsizeObject(t) == t.json /\ t.type \notin {Absent, NonString} /\ t.okind = "number"

\* serde_json::from_str::<ArbitraryObject>: a string "type" and any "object".
ParsesArbitraryObject(t) == t.json /\ t.type \notin {Absent, NonString} /\ t.okind # "absent"

\* GetMessageType::get_type: Ok(the discriminant) or Err
get_type(t) == IF t.type \in TypeNames THEN t.type ELSE "Err"

\* PollMsg with the closed flag set.
PollMsgClosed(id, s, t) ==
    [type |-> "Poll", title |-> t.pt, owner_id |-> id, owner_name |-> s.name,
     room |-> s.room, options |-> <<>>, votes |-> [i \in Ids |-> Absent], closed |-> TRUE]

\* server::Poll as the session builds it: an open poll with no option and
\* no vote.
PollMsg(id, s, t) ==
    [type |-> "Poll", title |-> t.pt, owner_id |-> id, owner_name |-> s.name,
     room |-> s.room, options |-> <<>>, votes |-> [i \in Ids |-> Absent], closed |-> FALSE]

\* server::PollOption
PollOptionMsg(id, s, t) ==
    [type |-> "PollOption", poll_title |-> t.pt, title |-> t.po, owner_id |-> id,
     owner_name |-> s.name, room |-> s.room]

\* VoteMsg with both titles taken from poll_title.
VoteMsgSameField(id, s, t) ==
    [type |-> "Vote", owner_id |-> id, owner_name |-> s.name, room |-> s.room,
     poll_title |-> t.pt, option_title |-> t.pt]

\* server::PollVoteHelper
VoteMsg(id, s, t) ==
    [type |-> "Vote", owner_id |-> id, owner_name |-> s.name, room |-> s.room,
     poll_title |-> t.pt, option_title |-> t.po]

\* server::PollCloseHelper
PollCloseMsg(id, s, t) ==
    [type |-> "PollClose", poll_title |-> t.pt, sender_id |-> id,
     sender_name |-> s.name, room |-> s.room]

\* server::Elevate and server::Recede: no owner name
NumericMsg(id, s, t) ==
    [type |-> t.type, object |-> t.okind, owner_id |-> id, room |-> s.room]

\* ArbitraryMsg with the first room for self.room.
ArbitraryMsgFirstRoom(id, s, t) ==
    [type |-> t.type, object |-> t.okind, owner_id |-> id, owner_name |-> s.name,
     room |-> RoomSeq[1]]

\* server::Instant, server::Raise and server::Lower
ArbitraryMsg(id, s, t) ==
    [type |-> t.type, object |-> t.okind, owner_id |-> id, owner_name |-> s.name,
     room |-> s.room]

\* First parse: the poll family. Each arm that sends returns.
PollFamily(id, s, t) ==
    IF ~ParsesHashMapObject(t) THEN <<>>
    ELSE IF get_type(t) = "poll" /\ t.pt # Absent
         THEN <<PollMsg(id, s, t)>>
    ELSE IF get_type(t) = "polloption" /\ t.pt # Absent /\ t.po # Absent
         THEN <<PollOptionMsg(id, s, t)>>
    ELSE IF get_type(t) = "vote" /\ t.pt # Absent /\ t.po # Absent
         THEN <<VoteMsg(id, s, t)>>
    ELSE IF get_type(t) = "closepoll" /\ t.pt # Absent
         THEN <<PollCloseMsg(id, s, t)>>
    ELSE <<>>

\* Second parse: elevate and recede.
Numeric(id, s, t) ==
    IF ParsesUsizeObject(t) /\ get_type(t) \in NumericTypes
    THEN <<NumericMsg(id, s, t)>>
    ELSE <<>>

\* Arbitrary with the Ok(_) arm sending too.
ArbitraryAnyType(id, s, t) ==
    IF ParsesArbitraryObject(t) /\ get_type(t) # "Err"
    THEN <<ArbitraryMsg(id, s, t)>>
    ELSE <<>>

\* Third parse: instant, raise and lower.
Arbitrary(id, s, t) ==
    IF ParsesArbitraryObject(t) /\ get_type(t) \in ArbitraryTypes
    THEN <<ArbitraryMsg(id, s, t)>>
    ELSE <<>>

\* The legacy test: nothing is sent. jsonmsg["type"] indexes a HashMap, which
\* panics when the key is not there.
LegacyPanics(t) == t.json /\ t.type = Absent

\* What the Text arm sends, in the order it sends it: the first parse that
\* sends returns from the handler.
Forwarded(id, s, t) ==
    IF PollFamily(id, s, t) # <<>> THEN PollFamily(id, s, t)
    ELSE IF Numeric(id, s, t) # <<>> THEN Numeric(id, s, t)
    ELSE IF Arbitrary(id, s, t) # <<>> THEN Arbitrary(id, s, t)
    ELSE <<>>

\* Whether the Text arm reaches the legacy test and panics there.
Panics(id, s, t) == Forwarded(id, s, t) = <<>> /\ LegacyPanics(t)

\* What a panic in the handler leaves behind. The task that polls the
\* actor unwinds; the actor is gone either way, but whether its stopping()
\* still runs when the context is dropped is the runtime's choice.
PanicOutcomes == {"stopping_runs", "stopping_skipped"}

\* DoSendAll with the messages put in front of the queue.
DoSendAllFront(box, ms) == IF srvUp THEN ms \o box ELSE box

DoSendAll(box, ms) == IF srvUp THEN box \o ms ELSE box

\* The add-option commands on their way to a poll, and the room they fit in.
PendingOptions(room, title) ==
    Cardinality({i \in 1..Len(mailbox) :
        /\ mailbox[i].type = "PollOption"
        /\ mailbox[i].room = room
        /\ mailbox[i].poll_title = title})

\* The commands in the mailbox: what is neither a Join nor a Disconnect.
Pending == Cardinality({i \in 1..Len(mailbox) : mailbox[i].type \notin {"Join", "Disconnect"}})

WithinBoundsOf(ms, cap) ==
    /\ Len(mailbox) + Len(ms) <= MaxMailbox
    /\ Pending + Len(ms) <= cap
    /\ \A i \in 1..Len(ms) :
         ms[i].type = "PollOption" =>
            Len(polls[ms[i].room][ms[i].poll_title].options)
              + PendingOptions(ms[i].room, ms[i].poll_title) < MaxOptions

WithinBounds(ms) == WithinBoundsOf(ms, MaxPending)

\* Text with self.hb = Instant::now() as for a pong.
TextRefreshes(id, t) ==
    /\ sess[id].state = "active"
    /\ LET ms == Forwarded(id, sess[id], t)
       IN IF Panics(id, sess[id], t)
          THEN \E o \in PanicOutcomes :
                 /\ sess' = [sess EXCEPT ![id] = Dropped(@)]
                 /\ IF o = "stopping_runs"
                    THEN /\ Len(mailbox) < MaxMailbox
                         /\ mailbox' = DoSend(mailbox, DisconnectMsg(id))
                         /\ discSent' = [discSent EXCEPT ![id] = @ + 1]
                    ELSE UNCHANGED <<mailbox, discSent>>
          ELSE /\ WithinBounds(ms)
               /\ mailbox' = DoSendAll(mailbox, ms)
               /\ sess' = [sess EXCEPT ![id].idle = 0]
               /\ UNCHANGED discSent
    /\ wire' = NoFrame
    /\ bcast' = NoBroadcast
    /\ UNCHANGED <<counter, srvUp, coordVars>>

\* ws::Message::Text, with at most cap commands waiting in the mailbox.
TextUpTo(id, t, cap) ==
    /\ sess[id].state = "active"
    /\ LET ms == Forwarded(id, sess[id], t)
       IN IF Panics(id, sess[id], t)
          THEN \E o \in PanicOutcomes :
                 /\ sess' = [sess EXCEPT ![id] = Dropped(@)]
                 /\ IF o = "stopping_runs"
                    THEN /\ Len(mailbox) < MaxMailbox
                         /\ mailbox' = DoSend(mailbox, DisconnectMsg(id))
                         /\ discSent' = [discSent EXCEPT ![id] = @ + 1]
                    ELSE UNCHANGED <<mailbox, discSent>>
          ELSE /\ WithinBoundsOf(ms, cap)
               /\ mailbox' = DoSendAll(mailbox, ms)
               /\ UNCHANGED <<sess, discSent>>
    /\ wire' = NoFrame
    /\ bcast' = NoBroadcast
    /\ UNCHANGED <<counter, srvUp, coordVars>>

\* ws::Message::Text
Text(id, t) == TextUpTo(id, t, MaxPending)

\* ------------------------------------------------------------ coordinator

Head1(box) == box[1]

\* The coordinator actor stops: its state goes with it, and whatever its
\* mailbox held is never handled.
ServerDown ==
    /\ srvUp
    /\ srvUp' = FALSE
    /\ mailbox' = <<>>
    /\ registry' = {}
    /\ members' = [r \in Rooms |-> {}]
    /\ polls' = [r \in Rooms |-> [t \in Titles |-> NoPoll]]
    /\ wire' = NoFrame
    /\ bcast' = NoBroadcast
    /\ UNCHANGED <<sessVars, handled>>

\* Join: the room is created if absent; the session is added to its member
\* set and to the registry; the sender gets its reply.
HandleJoin ==
    /\ srvUp
    /\ mailbox # <<>>
    /\ Head1(mailbox).type = "Join"
    /\ LET m == Head1(mailbox)
       IN /\ registry' = registry \cup {m.id}
          /\ members' = [members EXCEPT ![m.room] = @ \cup {m.id}]
          /\ sess' = [sess EXCEPT ![m.id].state = "acked"]
    /\ mailbox' = Tail(mailbox)
    /\ wire' = NoFrame
    /\ bcast' = NoBroadcast
    /\ handled' = [handled EXCEPT ![Head1(mailbox).id] = "Join"]
    /\ UNCHANGED <<counter, srvUp, polls, discSent>>

\* Disconnect: the session leaves the registry and whichever room holds it.
HandleDisconnect ==
    /\ srvUp
    /\ mailbox # <<>>
    /\ Head1(mailbox).type = "Disconnect"
    /\ LET m == Head1(mailbox)
       IN /\ registry' = registry \ {m.id}
          /\ members' = [r \in Rooms |-> members[r] \ {m.id}]
    /\ mailbox' = Tail(mailbox)
    /\ wire' = NoFrame
    /\ bcast' = NoBroadcast
    /\ handled' = [handled EXCEPT ![Head1(mailbox).id] = "Disconnect"]
    /\ UNCHANGED <<sessVars, srvUp, polls>>

\* ------------------------------------------------------------ polls

Range(f) == {f[i] : i \in DOMAIN f}

\* How many vote-map entries name the option title.
RECURSIVE CountVotes(_, _, _)
CountVotes(votes, voters, title) ==
    IF voters = {} THEN 0
    ELSE LET v == CHOOSE x \in voters : TRUE
         IN (IF votes[v] = title THEN 1 ELSE 0) + CountVotes(votes, voters \ {v}, title)

\* Tally counting every vote for every option.
TallyAllVotes(p) ==
    [i \in 1..Len(p.options) |-> Cardinality({v \in DOMAIN p.votes : p.votes[v] # Absent})]

\* The tally of a poll: one count per place of the option sequence.
Tally(p) == [i \in 1..Len(p.options) |-> CountVotes(p.votes, DOMAIN p.votes, p.options[i])]

\* Broadcast with every registered session as recipient.
BroadcastToRegistry(room, kind, title, p) ==
    [room |-> room, kind |-> kind, title |-> title,
     options |-> p.options, tally |-> Tally(p), to |-> registry]

\* Broadcast: the event goes to every session registered in the room.
Broadcast(room, kind, title, p) ==
    [room |-> room, kind |-> kind, title |-> title,
     options |-> p.options, tally |-> Tally(p), to |-> members[room]]

\* What the coordinator may do with a CreatePoll whose title the room
\* already holds: the policy is left open.
DuplicatePolicies == {"reject", "overwrite"}

\* The poll a CreatePoll stores.
NewPoll(m) ==
    [exists |-> TRUE, owner_id |-> m.owner_id, owner_name |-> m.owner_name,
     options |-> m.options, votes |-> m.votes, closed |-> m.closed]

\* CreatePoll
HandlePoll ==
    /\ srvUp
    /\ mailbox # <<>>
    /\ Head1(mailbox).type = "Poll"
    /\ LET m == Head1(mailbox)
           old == polls[m.room][m.title]
       IN \E policy \in DuplicatePolicies :
            IF ~old.exists \/ policy = "overwrite"
            THEN /\ polls' = [polls EXCEPT ![m.room][m.title] = NewPoll(m)]
                 /\ bcast' = Broadcast(m.room, "poll", m.title, NewPoll(m))
            ELSE /\ bcast' = NoBroadcast
                 /\ UNCHANGED polls
    /\ mailbox' = Tail(mailbox)
    /\ wire' = NoFrame
    /\ UNCHANGED <<sessVars, srvUp, registry, members, handled>>

\* IsOpen without the closed flag.
IsOpenIgnoresClosed(p) == p.exists

\* Whether a command may change the poll: it exists and is Open.
IsOpen(p) == p.exists /\ ~p.closed

\* AddOption
HandlePollOption ==
    /\ srvUp
    /\ mailbox # <<>>
    /\ Head1(mailbox).type = "PollOption"
    /\ LET m == Head1(mailbox)
           old == polls[m.room][m.poll_title]
           new == [old EXCEPT !.options = Append(@, m.title)]
       IN IF IsOpen(old)
          THEN /\ polls' = [polls EXCEPT ![m.room][m.poll_title] = new]
               /\ bcast' = Broadcast(m.room, "polloption", m.poll_title, new)
          ELSE /\ bcast' = NoBroadcast
               /\ UNCHANGED polls
    /\ mailbox' = Tail(mailbox)
    /\ wire' = NoFrame
    /\ UNCHANGED <<sessVars, srvUp, registry, members, handled>>

\* Whether a vote is accepted: the poll is Open and lists the option.
AcceptsVote(p, option) == IsOpen(p) /\ option \in Range(p.options)

\* Vote
HandleVote ==
    /\ srvUp
    /\ mailbox # <<>>
    /\ Head1(mailbox).type = "Vote"
    /\ LET m == Head1(mailbox)
           old == polls[m.room][m.poll_title]
           new == [old EXCEPT !.votes[m.owner_id] = m.option_title]
       IN IF AcceptsVote(old, m.option_title)
          THEN /\ polls' = [polls EXCEPT ![m.room][m.poll_title] = new]
               /\ bcast' = Broadcast(m.room, "vote", m.poll_title, new)
          ELSE /\ bcast' = NoBroadcast
               /\ UNCHANGED polls
    /\ mailbox' = Tail(mailbox)
    /\ wire' = NoFrame
    /\ UNCHANGED <<sessVars, srvUp, registry, members, handled>>

\* HandlePollClose with the close kept to the owner of the poll.
HandlePollCloseOwnerOnly ==
    /\ srvUp
    /\ mailbox # <<>>
    /\ Head1(mailbox).type = "PollClose"
    /\ LET m == Head1(mailbox)
           old == polls[m.room][m.poll_title]
           new == [old EXCEPT !.closed = TRUE]
       IN IF IsOpen(old) /\ m.sender_id = old.owner_id
          THEN /\ polls' = [polls EXCEPT ![m.room][m.poll_title] = new]
               /\ bcast' = Broadcast(m.room, "closepoll", m.poll_title, new)
          ELSE /\ bcast' = NoBroadcast
               /\ UNCHANGED polls
    /\ mailbox' = Tail(mailbox)
    /\ wire' = NoFrame
    /\ UNCHANGED <<sessVars, srvUp, registry, members, handled>>

\* ClosePoll: no check of the sender
HandlePollClose ==
    /\ srvUp
    /\ mailbox # <<>>
    /\ Head1(mailbox).type = "PollClose"
    /\ LET m == Head1(mailbox)
           old == polls[m.room][m.poll_title]
           new == [old EXCEPT !.closed = TRUE]
       IN IF IsOpen(old)
          THEN /\ polls' = [polls EXCEPT ![m.room][m.poll_title] = new]
               /\ bcast' = Broadcast(m.room, "closepoll", m.poll_title, new)
          ELSE /\ bcast' = NoBroadcast
               /\ UNCHANGED polls
    /\ mailbox' = Tail(mailbox)
    /\ wire' = NoFrame
    /\ UNCHANGED <<sessVars, srvUp, registry, members, handled>>

\* Elevate, Recede, Instant, Raise and Lower: the payload is broadcast to
\* the room and nothing is kept.
HandleSignal ==
    /\ srvUp
    /\ mailbox # <<>>
    /\ Head1(mailbox).type \in NumericTypes \cup ArbitraryTypes
    /\ LET m == Head1(mailbox)
       IN bcast' = Broadcast(m.room, m.type, Absent, NoPoll)
    /\ mailbox' = Tail(mailbox)
    /\ wire' = NoFrame
    /\ UNCHANGED <<sessVars, srvUp, coordVars>>

\* ------------------------------------------------------------ specifications

Init ==
    /\ counter = 1
    /\ sess = [id \in Ids |-> NoSession]
    /\ mailbox = <<>>
    /\ srvUp = TRUE
    /\ registry = {}
    /\ members = [r \in Rooms |-> {}]
    /\ polls = [r \in Rooms |-> [t \in Titles |-> NoPoll]]
    /\ wire = NoFrame
    /\ bcast = NoBroadcast
    /\ discSent = [id \in Ids |-> 0]
    /\ handled = [id \in Ids |-> "none"]

\* The text payloads that carry no recognised command: what is not JSON, and
\* a JSON object whose "type" is missing, is no string or names no command.
BadTexts == {t \in Texts : (~t.json \/ t.type \in {Absent, NonString, "bogus"}) /\ t.pt = Absent}

\* The text payloads of the poll family.
PollTexts == {t \in Texts : t.type \in PollTypes /\ t.okind = "strings" /\ t.pt # Absent}

\* Connections come and go and time passes; the clients send control
\* frames and text that carries no command.
NextLife ==
    \/ \E p \in Paths : Connect(p[1], p[2])
    \/ \E id \in Ids : JoinOk(id)
    \/ \E id \in Ids : JoinErr(id)
    \/ \E id \in Ids : Stopping(id)
    \/ \E id \in Ids : Hb(id)
    \/ Tick
    \/ \E id \in Ids : Ping(id)
    \/ \E id \in Ids : Pong(id)
    \/ \E id \in Ids, k \in StopFrames : StopFrame(id, k)
    \/ \E id \in Ids, k \in IgnoredFrames : IgnoredFrame(id, k)
    \/ \E id \in Ids, t \in BadTexts : Text(id, t)
    \/ ServerDown
    \/ HandleJoin
    \/ HandleDisconnect

SpecLife == Init /\ [][NextLife]_vars

\* Connections, heartbeats and control frames only. The coordinator is an
\* actor: it handles the head of a mailbox that is not empty.
NextHb ==
    \/ \E p \in Paths : Connect(p[1], p[2])
    \/ \E id \in Ids : JoinOk(id)
    \/ \E id \in Ids : JoinErr(id)
    \/ \E id \in Ids : Stopping(id)
    \/ \E id \in Ids : Hb(id)
    \/ Tick
    \/ \E id \in Ids : Ping(id)
    \/ \E id \in Ids : Pong(id)
    \/ \E id \in Ids, k \in StopFrames : StopFrame(id, k)
    \/ ServerDown
    \/ HandleJoin
    \/ HandleDisconnect

SpecHb ==
    /\ Init
    /\ [][NextHb]_vars
    /\ WF_vars(HandleJoin)
    /\ WF_vars(HandleDisconnect)

\* The clients run polls: no heartbeat falls due meanwhile.
Next ==
    \/ \E p \in Paths : Connect(p[1], p[2])
    \/ \E id \in Ids : JoinOk(id)
    \/ \E id \in Ids : Stopping(id)
    \/ \E id \in Ids, k \in StopFrames : StopFrame(id, k)
    \/ \E id \in Ids, t \in PollTexts : Text(id, t)
    \/ HandleJoin
    \/ HandleDisconnect
    \/ HandlePoll
    \/ HandlePollOption
    \/ HandleVote
    \/ HandlePollClose

Spec == Init /\ [][Next]_vars

\* One client sends every text payload there is.
NextDecode ==
    \/ \E p \in Paths : counter = 1 /\ Connect(p[1], p[2])
    \/ \E id \in Ids : JoinOk(id)
    \/ \E id \in Ids, t \in Texts : Text(id, t)
    \/ HandleJoin
    \/ HandleDisconnect
    \/ HandlePoll
    \/ HandlePollOption
    \/ HandleVote
    \/ HandlePollClose
    \/ HandleSignal

SpecDecode == Init /\ [][NextDecode]_vars

\* The text payloads that create a poll.
CreateTexts == {t \in PollTexts : t.type = "poll"}

\* Clients create polls while the coordinator may go away.
NextJoin ==
    \/ \E p \in Paths : Connect(p[1], p[2])
    \/ \E id \in Ids : JoinOk(id)
    \/ \E id \in Ids : JoinErr(id)
    \/ \E id \in Ids : Stopping(id)
    \/ \E id \in Ids, k \in StopFrames : StopFrame(id, k)
    \/ \E id \in Ids, t \in CreateTexts : Text(id, t)
    \/ ServerDown
    \/ HandleJoin
    \/ HandleDisconnect
    \/ HandlePoll

SpecJoin == Init /\ [][NextJoin]_vars

\* Text that creates a poll and text that is not JSON.
FrameTexts == CreateTexts \cup {t \in BadTexts : ~t.json}

\* One client sends every kind of frame, text that creates a poll and text
\* that is not JSON, while time passes.
NextFrames ==
    \/ \E p \in Paths : counter = 1 /\ Connect(p[1], p[2])
    \/ \E id \in Ids : JoinOk(id)
    \/ \E id \in Ids : Stopping(id)
    \/ \E id \in Ids : Hb(id)
    \/ Tick
    \/ \E id \in Ids : Ping(id)
    \/ \E id \in Ids : Pong(id)
    \/ \E id \in Ids, k \in StopFrames : StopFrame(id, k)
    \/ \E id \in Ids, k \in IgnoredFrames : IgnoredFrame(id, k)
    \/ \E id \in Ids, t \in FrameTexts : Text(id, t)
    \/ HandleJoin
    \/ HandleDisconnect
    \/ HandlePoll

SpecFrames == Init /\ [][NextFrames]_vars

\* The text payloads that create a poll and that close one.
OrderTexts == {t \in PollTexts : t.type \in {"poll", "closepoll"} /\ t.po = Absent}

\* One client sends frames faster than the coordinator handles them: up to
\* MaxQueued of its commands wait in the mailbox.
NextOrder ==
    \/ \E p \in Paths : counter = 1 /\ Connect(p[1], p[2])
    \/ \E id \in Ids : JoinOk(id)
    \/ \E id \in Ids : Stopping(id)
    \/ \E id \in Ids : Hb(id)
    \/ Tick
    \/ \E id \in Ids : Pong(id)
    \/ \E id \in Ids, k \in StopFrames : StopFrame(id, k)
    \/ \E id \in Ids, t \in OrderTexts : TextUpTo(id, t, MaxQueued)
    \/ HandleJoin
    \/ HandleDisconnect
    \/ HandlePoll
    \/ HandlePollClose

SpecOrder == Init /\ [][NextOrder]_vars

\* One payload of each family: a poll, an elevate with a number and an
\* instant with an object.
RoomTexts ==
    {t \in Texts :
        \/ t.type = "poll" /\ t.okind = "strings" /\ t.pt # Absent /\ t.po = Absent
        \/ t.type = "elevate" /\ t.okind = "number"
        \/ t.type = "instant" /\ t.okind = "other"}

\* Clients in two rooms send commands of every family.
NextRooms ==
    \/ \E p \in Paths : Connect(p[1], p[2])
    \/ \E id \in Ids : JoinOk(id)
    \/ \E id \in Ids : Stopping(id)
    \/ \E id \in Ids, k \in StopFrames : StopFrame(id, k)
    \/ \E id \in Ids, t \in RoomTexts : Text(id, t)
    \/ HandleJoin
    \/ HandleDisconnect
    \/ HandlePoll
    \/ HandleSignal

SpecRooms == Init /\ [][NextRooms]_vars

\* ------------------------------------------------------------ claims

\* C1: every session sends Disconnect exactly once over its whole life,
\* whatever ends it: never twice, and once it has stopped, not zero times.
C1_DisconnectExactlyOnce ==
    \A id \in Ids :
        /\ discSent[id] <= 1
        /\ (sess[id].state = "stopped" => discSent[id] = 1)

C3_Membership ==
    \A id \in Ids :
        srvUp =>
          /\ handled[id] = "Join" =>
               \A r \in Rooms : (id \in members[r]) <=> (r = sess[id].room)
          /\ handled[id] = "Disconnect" =>
               \A r \in Rooms : id \notin members[r]

\* C3, witness: one session has left and another sits in the second room.
C3_Witness ==
    /\ srvUp
    /\ \E a, b \in Ids :
         /\ handled[a] = "Disconnect"
         /\ handled[b] = "Join"
         /\ sess[b].room = RoomSeq[2]
         /\ b \in members[RoomSeq[2]]

\* C9: a text frame that is not JSON, that is a JSON object with no "type",
\* or whose "type" names no command sends nothing to the coordinator,
\* changes no session, room or poll, and leaves its session active.
C9_Undecodable ==
    [][\A id \in Ids, t \in {u \in BadTexts : u.type # NonString} :
         Text(id, t) =>
            /\ mailbox' = mailbox
            /\ sess' = sess
            /\ sess'[id].state = "active"
            /\ UNCHANGED coordVars]_vars

\* The poll a command at the head of the mailbox names.
Target(m) == polls[m.room][m.poll_title]

\* Whether an option title is in an option sequence.
Lists(options, title) == \E i \in 1..Len(options) : options[i] = title

\* How often an option title is in an option sequence.
Occurrences(options, title) == Cardinality({i \in 1..Len(options) : options[i] = title})

\* C5: an AddOption, Vote or ClosePoll that names a poll that does not exist
\* or is closed, and a Vote for an option the poll does not list, leaves
\* every poll as it was and broadcasts nothing.
C5_RejectedCommands ==
    [][((HandlePollOption \/ HandleVote \/ HandlePollClose)
          /\ LET m == Head1(mailbox)
             IN \/ ~Target(m).exists
                \/ Target(m).closed
                \/ (m.type = "Vote" /\ ~Lists(Target(m).options, m.option_title)))
        => (polls' = polls /\ bcast' = NoBroadcast)]_vars

\* C5, witness: an AddOption for a closed poll that lists one option is at
\* the head of the mailbox.
C5_Witness ==
    /\ mailbox # <<>>
    /\ Head1(mailbox).type = "PollOption"
    /\ Target(Head1(mailbox)).closed
    /\ Len(Target(Head1(mailbox)).options) = 1
    /\ Head1(mailbox).title # Target(Head1(mailbox)).options[1]

\* The payload {"type":"vote","object":{"poll_title":pt,"poll_option_title":po}}
VoteText(pt, po) == [json |-> TRUE, type |-> "vote", okind |-> "strings", pt |-> pt, po |-> po]

\* C6: a vote frame of session V reaches the coordinator as V's vote; an
\* accepted vote sets V's entry of the vote map to the option and changes no
\* other entry; and an entry changes only by its voter's accepted vote or by
\* the creation of the poll.
C6_VoteOverwrites ==
    /\ [][\A id \in Ids, pt \in Titles, po \in Options :
            Text(id, VoteText(pt, po))
            => /\ Len(mailbox') = Len(mailbox) + 1
               /\ mailbox'[Len(mailbox')].type = "Vote"
               /\ mailbox'[Len(mailbox')].owner_id = id
               /\ mailbox'[Len(mailbox')].room = sess[id].room
               /\ mailbox'[Len(mailbox')].poll_title = pt
               /\ mailbox'[Len(mailbox')].option_title = po]_vars
    /\ [][(HandleVote
            /\ Target(Head1(mailbox)).exists
            /\ ~Target(Head1(mailbox)).closed
            /\ Lists(Target(Head1(mailbox)).options, Head1(mailbox).option_title))
          => LET m == Head1(mailbox)
             IN \A v \in Ids :
                  polls'[m.room][m.poll_title].votes[v] =
                     IF v = m.owner_id THEN m.option_title ELSE Target(m).votes[v]]_vars
    /\ [][\A r \in Rooms, ti \in Titles, v \in Ids :
            polls'[r][ti].votes[v] # polls[r][ti].votes[v]
            => \/ HandlePoll
               \/ HandleVote /\ Head1(mailbox).owner_id = v
                             /\ polls'[r][ti].votes[v] = Head1(mailbox).option_title]_vars

\* C6, witness: a voter whose entry is the first option has a vote for the
\* second option, which the open poll lists, at the head of the mailbox.
C6_Witness ==
    /\ mailbox # <<>>
    /\ Head1(mailbox).type = "Vote"
    /\ LET m == Head1(mailbox)
       IN /\ Target(m).exists /\ ~Target(m).closed
          /\ Lists(Target(m).options, m.option_title)
          /\ Target(m).votes[m.owner_id] \notin {Absent, m.option_title}

\* C7: a CreatePoll for a title the room does not hold yields an open poll
\* with no option and no vote; an accepted AddOption appends its title, so
\* the title occurs once more than before and the earlier options keep
\* their places; nothing else adds, drops or moves an option.
C7_CreateAndAppend ==
    /\ [][(HandlePoll /\ ~polls[Head1(mailbox).room][Head1(mailbox).title].exists)
          => LET m == Head1(mailbox)
                 p == polls'[m.room][m.title]
             IN /\ p.exists
                /\ ~p.closed
                /\ p.options = <<>>
                /\ \A v \in Ids : p.votes[v] = Absent]_vars
    /\ [][(HandlePollOption /\ Target(Head1(mailbox)).exists
                            /\ ~Target(Head1(mailbox)).closed)
          => LET m == Head1(mailbox)
                 old == Target(m).options
                 new == polls'[m.room][m.poll_title].options
             IN /\ Len(new) = Len(old) + 1
                /\ new[Len(new)] = m.title
                /\ \A i \in 1..Len(old) : new[i] = old[i]
                /\ Occurrences(new, m.title) = Occurrences(old, m.title) + 1]_vars
    /\ [][\A r \in Rooms, ti \in Titles :
            polls'[r][ti].options # polls[r][ti].options
            => (HandlePoll \/ HandlePollOption)]_vars

\* C7, witness: a poll lists its two options in the order they were added.
C7_Witness ==
    \E r \in Rooms, ti \in Titles :
        /\ polls[r][ti].exists
        /\ polls[r][ti].options = <<"tacos", "pizza">>
        /\ \A v \in Ids : polls[r][ti].votes[v] = Absent

\* C8: in the tally of a vote event and of a poll-closed event, the count
\* of each option is the number of vote-map entries of the poll, as the
\* command left it, whose value is that option's title.
C8_TallyCounts ==
    bcast.kind \in {"vote", "closepoll"} =>
        LET p == polls[bcast.room][bcast.title]
        IN /\ bcast.options = p.options
           /\ DOMAIN bcast.tally = 1..Len(p.options)
           /\ \A i \in 1..Len(p.options) :
                bcast.tally[i] = Cardinality({v \in Ids : p.votes[v] = p.options[i]})

\* C8, witness: a poll closes with two votes for one option and none for
\* the other.
C8_Witness ==
    /\ bcast.kind = "closepoll"
    /\ Len(bcast.tally) = 2
    /\ bcast.tally[1] = 2
    /\ bcast.tally[2] = 0

\* Whether a message in the mailbox is a command a frame forwarded.
IsCommand(m) == m.type \notin {"Join", "Disconnect"}

\* The command a text payload stands for, by its "type" and its "object".
Stands(t) ==
    IF ~t.json THEN "none"
    ELSE IF t.okind = "strings" /\ t.pt # Absent /\ t.type \in {"poll", "closepoll"}
         THEN t.type
    ELSE IF t.okind = "strings" /\ t.pt # Absent /\ t.po # Absent
            /\ t.type \in {"polloption", "vote"}
         THEN t.type
    ELSE IF t.okind = "number" /\ t.type \in {"elevate", "recede"} THEN t.type
    ELSE IF t.okind # "absent" /\ t.type \in {"instant", "raise", "lower"} THEN t.type
    ELSE "none"

\* The message type of each command.
MessageType(ty) ==
    CASE ty = "poll" -> "Poll"
      [] ty = "polloption" -> "PollOption"
      [] ty = "vote" -> "Vote"
      [] ty = "closepoll" -> "PollClose"
      [] OTHER -> ty

\* C10: a text frame forwards at most one command: the one its payload stands
\* for, and none when it stands for none, whatever the legacy test finds.
C10_AtMostOneCommand ==
    [][\A id \in Ids, t \in Texts :
         Text(id, t) =>
            LET before == SelectSeq(mailbox, IsCommand)
                after == SelectSeq(mailbox', IsCommand)
            IN IF Stands(t) = "none"
               THEN after = before
               ELSE /\ Len(after) = Len(before) + 1
                    /\ \A i \in 1..Len(before) : after[i] = before[i]
                    /\ after[Len(after)].type = MessageType(Stands(t))]_vars

\* C10, witness: the payload {"type":"instant","object":{...}}, which the
\* first parse reads and does not send, is forwarded by the third.
C10_Witness ==
    /\ mailbox # <<>>
    /\ mailbox[Len(mailbox)].type = "instant"
    /\ mailbox[Len(mailbox)].object = "strings"

\* C11: an event broadcast for a room goes to every session that is
\* registered in that room when the command is handled, and to no session
\* whose path names another room; a member that has already stopped does
\* not keep the event from the other members.
C11_BroadcastToRoom ==
    [][bcast'.kind # "none" =>
         /\ bcast'.to = members[bcast'.room]
         /\ \A id \in Ids :
              id \in bcast'.to <=> (handled[id] = "Join" /\ sess[id].room = bcast'.room)]_vars

\* C11, witness: an event went to a member that has stopped and to one that
\* is active.
C11_Witness ==
    /\ bcast.kind # "none"
    /\ \E a, b \in bcast.to : sess[a].state = "stopped" /\ sess[b].state = "active"

\* The session a message in the mailbox comes from.
Sender(m) ==
    IF m.type \in {"Join", "Disconnect"} THEN m.id
    ELSE IF m.type = "PollClose" THEN m.sender_id
    ELSE m.owner_id

\* Whether the step puts a command of the session into the mailbox.
Forwards(id) ==
    /\ Len(mailbox') = Len(mailbox) + 1
    /\ IsCommand(mailbox'[Len(mailbox')])
    /\ Sender(mailbox'[Len(mailbox')]) = id

C13_DisconnectKeepsPolls ==
    [][HandleDisconnect =>
         LET id == Head1(mailbox).id
         IN /\ sess[id].state = "stopped"
            /\ registry' = registry \ {id}
            /\ \A r \in Rooms : members'[r] = members[r] \ {id}
            /\ polls' = polls]_vars

\* C13, witness: a session that has voted has left: it is in no room and
\* its vote is still recorded.
C13_Witness ==
    \E id \in Ids, r \in Rooms, ti \in Titles :
        /\ handled[id] = "Disconnect"
        /\ id \notin registry
        /\ id \notin members[r]
        /\ sess[id].room = r
        /\ polls[r][ti].exists
        /\ polls[r][ti].votes[id] # Absent

\* The sessions that have been created so far.
Created == {i \in Ids : sess[i].state # "none"}

\* C14: every connection that opens creates a session under an id no
\* session was created under before, greater than every id issued before;
\* the first id is 1; the Join of the session carries that id; and no
\* session that exists is touched by the opening.
C14_UniqueIds ==
    [][\A p \in Paths :
         Connect(p[1], p[2]) =>
            \E id \in Ids \ Created :
               /\ sess'[id].state = "starting"
               /\ \A j \in Created : j < id /\ sess'[j] = sess[j]
               /\ Created = {} => id = 1
               /\ srvUp => mailbox'[Len(mailbox')] = JoinMsg(id, sess'[id])]_vars

\* C14, witness: two connections opened before either Join was handled:
\* both sessions wait for their reply, under the ids 1 and 2.
C14_Witness ==
    /\ sess[1].state = "starting"
    /\ sess[2].state = "starting"
    /\ Len(mailbox) = 2
    /\ mailbox[1].id = 1
    /\ mailbox[2].id = 2

\* Whether a session has been told to stop or has stopped.
Terminated(s) == s.state \in {"stopping", "stopped"}

\* C15: a close frame, a continuation frame and a protocol error stop an
\* active session; a session that was told to stop never handles a frame
\* again: it is never active again and forwards no command; a binary frame
\* and a no-op frame change no session, its last-seen time included, and
\* put nothing into the mailbox.
C15_FrameEffects ==
    /\ [][\A id \in Ids, k \in StopFrames :
            StopFrame(id, k) => (sess[id].state = "active" /\ Terminated(sess'[id]))]_vars
    /\ [][\A id \in Ids :
            Terminated(sess[id]) => (Terminated(sess'[id]) /\ ~Forwards(id))]_vars
    /\ [][\A id \in Ids, k \in IgnoredFrames :
            IgnoredFrame(id, k) => (sess' = sess /\ mailbox' = mailbox)]_vars

\* C15, witness: a session that created a poll was stopped by a frame and
\* has sent its one Disconnect.
C15_Witness ==
    \E id \in Ids, r \in Rooms, ti \in Titles :
        /\ sess[id].state = "stopped"
        /\ discSent[id] = 1
        /\ polls[r][ti].exists
        /\ polls[r][ti].owner_id = id

\* The payload {"type":"closepoll","object":{"poll_title":pt}}
ClosePollText(pt) ==
    [json |-> TRUE, type |-> "closepoll", okind |-> "strings", pt |-> pt, po |-> Absent]

\* C16: a closepoll frame reaches the coordinator as a ClosePoll of its
\* sender for the sender's room; a ClosePoll for an open poll closes it,
\* whoever sent it, changes nothing else of it, and broadcasts a poll-closed
\* event to the room with the count of votes of each option; a ClosePoll
\* for a closed poll changes no poll and broadcasts nothing.
C16_ClosePoll ==
    /\ [][\A id \in Ids, pt \in Titles :
            Text(id, ClosePollText(pt))
            => /\ Len(mailbox') = Len(mailbox) + 1
               /\ mailbox'[Len(mailbox')] =
                    [type |-> "PollClose", poll_title |-> pt, sender_id |-> id,
                     sender_name |-> sess[id].name, room |-> sess[id].room]]_vars
    /\ [][(HandlePollClose /\ Target(Head1(mailbox)).exists /\ ~Target(Head1(mailbox)).closed)
          => LET m == Head1(mailbox)
                 old == Target(m)
             IN /\ polls' = [polls EXCEPT ![m.room][m.poll_title].closed = TRUE]
                /\ bcast'.kind = "closepoll"
                /\ bcast'.room = m.room
                /\ bcast'.title = m.poll_title
                /\ bcast'.to = members[m.room]
                /\ bcast'.options = old.options
                /\ DOMAIN bcast'.tally = 1..Len(old.options)
                /\ \A i \in 1..Len(old.options) :
                     bcast'.tally[i] =
                        Cardinality({v \in Ids : old.votes[v] = old.options[i]})]_vars
    /\ [][(HandlePollClose /\ Target(Head1(mailbox)).closed)
          => (polls' = polls /\ bcast' = NoBroadcast)]_vars

\* C16, witness: a poll was closed just now, after its owner had left the
\* room: the ClosePoll came from another session.
C16_Witness ==
    /\ bcast.kind = "closepoll"
    /\ LET p == polls[bcast.room][bcast.title]
       IN /\ p.closed
          /\ handled[p.owner_id] = "Disconnect"
          /\ p.owner_id \notin bcast.to
          /\ bcast.to # {}

\* C17: a text frame, whether it carries a command or not, leaves the
\* silence of its session as it was; the silence of an active session goes
\* back to zero only by a ping or a pong and otherwise grows with time; so
\* at a heartbeat tick the silence is the time since the last ping or pong,
\* and a tick that finds more than CLIENT_TIMEOUT stops the session.
C17_TextDoesNotRefresh ==
    /\ [][\A id \in Ids, t \in FrameTexts : Text(id, t) => sess'[id] = sess[id]]_vars
    /\ [][\A id \in Ids :
            (sess[id].state = "active" /\ sess'[id].idle # sess[id].idle)
            => \/ Ping(id) /\ sess'[id].idle = 0
               \/ Pong(id) /\ sess'[id].idle = 0
               \/ Tick /\ sess'[id].idle = Min(sess[id].idle + 1, IdleCap)]_vars
    /\ [][\A id \in Ids :
            (Hb(id) /\ sess[id].idle > CLIENT_TIMEOUT)
            => (sess'[id].state = "stopping" /\ discSent'[id] = discSent[id] + 1)]_vars

\* C17, witness: a session whose poll command is still in the mailbox was
\* timed out by its heartbeat: the Disconnect is right behind the command.
C17_Witness ==
    \E id \in Ids :
        /\ sess[id].state = "stopping"
        /\ sess[id].idle = IdleCap
        /\ discSent[id] = 1
        /\ Len(mailbox) = 2
        /\ mailbox[1].type = "Poll" /\ mailbox[1].owner_id = id
        /\ mailbox[2] = DisconnectMsg(id)

\* The messages of one session in a queue, in the order of the queue.
Of(id, box) ==
    LET From(m) == Sender(m) = id
    IN SelectSeq(box, From)

\* Whether the step hands the head of the mailbox to the coordinator.
Receives == mailbox # <<>> /\ mailbox' = Tail(mailbox)

\* C18: the coordinator takes the messages of a session in the order the
\* session sent them: each step leaves the session's messages in the
\* mailbox as they were, adds one behind them, or hands the first of them,
\* the head of the mailbox, to the coordinator. The coordinator receives a
\* command of a session only after it has received the session's Join, and
\* never once the session has stopped and no Disconnect of it is left in
\* the mailbox; and a stopped session sends nothing.
C18_SessionOrder ==
    /\ [][\A id \in Ids :
            \/ Of(id, mailbox') = Of(id, mailbox)
            \/ \E m \in {mailbox'[i] : i \in 1..Len(mailbox')} :
                  /\ Of(id, mailbox') = Append(Of(id, mailbox), m)
                  /\ mailbox' = Append(mailbox, m)
            \/ /\ Receives
               /\ Sender(Head1(mailbox)) = id
               /\ Of(id, mailbox') = Tail(Of(id, mailbox))]_vars
    /\ [][(Receives /\ IsCommand(Head1(mailbox)))
          => LET id == Sender(Head1(mailbox))
             IN /\ handled[id] # "none"
                /\ \/ sess[id].state # "stopped"
                   \/ \E i \in 2..Len(mailbox) : mailbox[i] = DisconnectMsg(id)]_vars
    /\ [][\A id \in Ids :
            sess[id].state = "stopped" => Len(Of(id, mailbox')) <= Len(Of(id, mailbox))]_vars

\* C18, witness: the session sent a Poll and then a ClosePoll before the
\* coordinator handled either: both wait in the mailbox, in that order.
C18_Witness ==
    /\ Len(mailbox) = 2
    /\ mailbox[1].type = "Poll"
    /\ mailbox[2].type = "PollClose"
    /\ mailbox[2].sender_id = mailbox[1].owner_id
    /\ handled[mailbox[1].owner_id] = "Join"

\* The display name a command carries, if it carries one.
NameOf(m) ==
    IF "owner_name" \in DOMAIN m THEN m.owner_name
    ELSE IF "sender_name" \in DOMAIN m THEN m.sender_name
    ELSE Absent

\* Whether handling the command at the head of the mailbox stays within the
\* room the command names.
StaysInRoom ==
    LET m == Head1(mailbox)
    IN /\ \A r \in Rooms \ {m.room} : polls'[r] = polls[r]
       /\ members' = members
       /\ registry' = registry
       /\ bcast'.kind # "none" => (bcast'.room = m.room /\ bcast'.to = members[m.room])

\* C19, as the claim has it: every command a session forwards carries the
\* session's id, display name and room.
C19_EveryCommandNamed ==
    [][\A id \in Ids, t \in RoomTexts :
         (Text(id, t) /\ Len(mailbox') > Len(mailbox))
         => LET m == mailbox'[Len(mailbox')]
            IN /\ Sender(m) = id
               /\ m.room = sess[id].room
               /\ NameOf(m) = sess[id].name]_vars

\* C19, amended: every command a session forwards carries the session's id
\* and room; it carries the session's display name too, unless it is an
\* elevate or a recede, which carry no name at all. Handling a command
\* changes no poll of another room and no member set, and broadcasts to the
\* members of the command's room only.
C19_OwnIdentity ==
    /\ [][\A id \in Ids, t \in RoomTexts :
            (Text(id, t) /\ Len(mailbox') > Len(mailbox))
            => LET m == mailbox'[Len(mailbox')]
               IN /\ Sender(m) = id
                  /\ m.room = sess[id].room
                  /\ NameOf(m) = IF m.type \in NumericTypes THEN Absent ELSE sess[id].name]_vars
    /\ [][(Receives /\ IsCommand(Head1(mailbox)))
          => (StaysInRoom /\ Head1(mailbox).room = sess[Sender(Head1(mailbox))].room)]_vars

\* C19, witness: a session of the second room created a poll there while a
\* session of the first room is active; the first room has no poll.
C19_Witness ==
    \E a, b \in Ids, ti \in Titles :
        /\ sess[a].room = RoomSeq[1] /\ sess[a].state = "active"
        /\ sess[b].room = RoomSeq[2]
        /\ polls[RoomSeq[2]][ti].exists
        /\ polls[RoomSeq[2]][ti].owner_id = b
        /\ ~polls[RoomSeq[1]][ti].exists
        /\ bcast.kind = "poll"
        /\ bcast.to = {b}

====
